---- MODULE Spec2Model ----
(***************************************************************************)
(* Model of the roll-combination search (app/utils/find-combinations.js)   *)
(* and of the per-substat estimator ratePower that calls it.               *)
(*                                                                         *)
(* Numbers are fixed-point integers counting hundredths: 60 stands for     *)
(* the JavaScript number 0.6, 100 for 1, 1404 for 14.04.  Sums and         *)
(* roundings are exact decimal arithmetic on that grid.                    *)
(***************************************************************************)
EXTENDS Integers, Sequences, FiniteSets, TLC

VARIABLES
    pc,             \* position of the running call
    possibleRolls,  \* findCombos argument: the candidate sequence
    targetArg,      \* findCombos argument: the target as passed by the caller
    stat,           \* findCombos argument: the attribute kind, or "undefined"
    stack,          \* call frames of subsetSum, innermost last
    found,          \* the paths pushed by subsetSum, in discovery order,
                    \* as they are before findCombos sorts each in place
    artifact,       \* ratePower argument: the entity and its substat records
    substats        \* ratePower local: the array built by map

vars == <<pc, possibleRolls, targetArg, stat, stack, found, artifact, substats>>

(***************************************************************************)
(* Bounds of the model.                                                    *)
(***************************************************************************)
MaxRolls == 2          \* longest candidate sequence
MaxSubstats == 2       \* longest substat sequence of an artifact
StackLimit == 12       \* frames the engine allows before a RangeError

RollValues == {0, 26, 60, 100}
TargetValues == {0, 50, 100, 104, 200, 700}
SearchRollValues == {0, 60, 100}
SearchTargetValues == {100, 700}
Amounts == {100, 200, 1280}

(***************************************************************************)
(* JavaScript values and primitives.                                       *)
(***************************************************************************)
NaN == [nan |-> TRUE, val |-> 0]
Num(v) == [nan |-> FALSE, val |-> v]

\* Number(target): a numeric string or number gives its value, anything
\* else gives NaN.
Number(arg) == IF arg.numeric THEN Num(arg.val) ELSE NaN

\* sum === target, with sum a number: false whenever target is NaN.
StrictEquals(sum, t) == ~t.nan /\ sum = t.val

\* sum >= target, with sum a number: false whenever target is NaN.
GreaterOrEqual(sum, t) == ~t.nan /\ sum >= t.val

\* Math.round(n): the nearest integer, halves towards +Infinity.
MathRound(n) == ((n + 50) \div 100) * 100

\* round1(n) = Math.round(n * 10) / 10.
round1(n) == ((n + 5) \div 10) * 10

\* partials.reduce((acc, n) => (acc + n), 0)
RECURSIVE Reduce(_)
Reduce(partials) ==
    IF partials = <<>> THEN 0
    ELSE Reduce(SubSeq(partials, 1, Len(partials) - 1)) + partials[Len(partials)]

\* const sum = oneDecimal ? round1(...) : Math.round(...)
RoundedSum(partials, oneDecimal) ==
    IF oneDecimal THEN round1(Reduce(partials)) ELSE MathRound(Reduce(partials))

(***************************************************************************)
(* Lookup data of app/data/artifact-data.                                  *)
(***************************************************************************)
DECIMAL_STATS == {"critRate", "critDmg", "Def%"}

\* const oneDecimal = DECIMAL_STATS.includes(stat)
OneDecimal(s) == s \in DECIMAL_STATS

(***************************************************************************)
(* subsetSum as a function: the paths it pushes on found, in order.        *)
(***************************************************************************)
\* if (sum === target) { found.push(partials); }
MatchMutant(sum, t) == GreaterOrEqual(sum, t)    \* variant: >= for ===
Match(sum, t) == StrictEquals(sum, t)

\* if (sum >= target) { return; }
PruneMutant(sum, t) == ~t.nan /\ sum > t.val    \* variant: > for >=
Prune(sum, t) == GreaterOrEqual(sum, t)

\* if (partials.length > 6) { return; }
LengthCapMutant(partials) == FALSE              \* variant: no length cap
LengthCap(partials) == Len(partials) > 6

RECURSIVE subsetSum(_, _, _, _), ForRollOf(_, _, _, _, _)
subsetSum(rolls, t, oneDecimal, partials) ==
    LET sum == RoundedSum(partials, oneDecimal)
        pushed == IF Match(sum, t) THEN <<partials>> ELSE <<>>
    IN  IF Prune(sum, t) THEN pushed
        ELSE IF LengthCap(partials) THEN pushed
        ELSE pushed \o ForRollOf(rolls, t, oneDecimal, partials, 1)

\* for (const roll of possibleRolls) { subsetSum(..., [...partials, roll]); }
ForRollOf(rolls, t, oneDecimal, partials, i) ==
    IF i > Len(rolls) THEN <<>>
    ELSE subsetSum(rolls, t, oneDecimal, Append(partials, rolls[i]))
         \o ForRollOf(rolls, t, oneDecimal, partials, i + 1)

(***************************************************************************)
(* findCombos: post-processing of the raw paths.                           *)
(***************************************************************************)
Range(seq) == { seq[i] : i \in DOMAIN seq }

\* the comparator (n1, n2) => (n1 - n2)
compare(n1, n2) == n1 - n2

\* The place of combo[i] in the sorted array: the elements the comparator
\* puts before it, equal elements keeping their order.
Rank(combo, i) ==
    Cardinality({ j \in DOMAIN combo :
                    \/ compare(combo[j], combo[i]) < 0
                    \/ compare(combo[j], combo[i]) = 0 /\ j < i }) + 1

SortAscending(combo) ==
    [r \in DOMAIN combo |->
        combo[CHOOSE i \in DOMAIN combo : Rank(combo, i) = r]]

\* combo.sort((n1, n2) => (n1 - n2))
SortMutant(combo) == combo                      \* variant: no sort
Sort(combo) == SortAscending(combo)

\* combinationsFoundRaw.forEach(combo => combo.sort(...))
SortAll(raw) == SubSeq([i \in 1..Len(raw) |-> Sort(raw[i])], 1, Len(raw))

\* The property key of combinationsFound[combo]: the array converted to a
\* string, its numbers joined by ",".
RECURSIVE ArrayToString(_)
ArrayToString(combo) ==
    IF combo = <<>> THEN ""
    ELSE IF Len(combo) = 1 THEN ToString(combo[1])
    ELSE ArrayToString(SubSeq(combo, 1, Len(combo) - 1))
         \o "," \o ToString(combo[Len(combo)])

\* A key that is a canonical array index (the string of a non-negative
\* integer): such keys are enumerated before the other keys.
IsArrayIndex(combo) ==
    Len(combo) = 1 /\ combo[1] >= 0 /\ combo[1] % 100 = 0

\* The key each element of raw is stored under.
KeysOf(raw) ==
    SubSeq([i \in 1..Len(raw) |-> ArrayToString(raw[i])], 1, Len(raw))

\* combinationsFoundRaw.forEach((combo, i) => (combinationsFound[combo] = i))
\* The index whose assignment created a key, and the value kept under the
\* key of element k: the last index assigned to it.
FirstIndex(keys, key) ==
    CHOOSE i \in DOMAIN keys :
        /\ keys[i] = key
        /\ \A j \in 1..(i - 1) : keys[j] # key

LastIndex(keys, k) ==
    CHOOSE i \in DOMAIN keys :
        /\ keys[i] = keys[k]
        /\ \A j \in (i + 1)..Len(keys) : keys[j] # keys[k]

\* The members of a set of indices in ascending order.
Ascending(indices) ==
    [r \in 1..Cardinality(indices) |->
        CHOOSE i \in indices :
            Cardinality({ j \in indices : j < i }) = r - 1]

\* The own keys of combinationsFound in enumeration order, each named by the
\* index that created it: array-index keys first (a search yields at most
\* one), then the other keys in creation order.
OwnKeys(raw, keys) ==
    LET created == { FirstIndex(keys, key) : key \in Range(keys) }
    IN  Ascending({ i \in created : IsArrayIndex(raw[i]) })
        \o Ascending({ i \in created : ~IsArrayIndex(raw[i]) })

\* Object.values(combinationsFound).map(i => combinationsFoundRaw[i])
Deduplicate(raw) ==
    LET keys == KeysOf(raw)
        own == OwnKeys(raw, keys)
    IN  [n \in 1..Len(own) |-> raw[LastIndex(keys, own[n])]]

\* target = Number(target)
Target == Number(targetArg)

\* The value findCombos returns, from the paths subsetSum has pushed.
result == Deduplicate(SortAll(found))

\* findCombos(possibleRolls, target, stat)
FindCombos(rolls, arg, s) ==
    Deduplicate(SortAll(subsetSum(rolls, Number(arg), OneDecimal(s), <<>>)))

(***************************************************************************)
(* Inputs.                                                                 *)
(***************************************************************************)
RollSeqs(pool) ==
    { rolls \in UNION { [1..n -> pool] : n \in 0..MaxRolls } :
        \A i, j \in 1..Len(rolls) : i # j => rolls[i] # rolls[j] }

TargetArgs(values) ==
    { [numeric |-> TRUE, val |-> v] : v \in values }
        \cup { [numeric |-> FALSE, val |-> 0] }

StatArgs == {"critRate", "Def"}

NoArtifact == [substats |-> <<>>]

(***************************************************************************)
(* Spec: one call of findCombos on every input of the bounded sets.        *)
(***************************************************************************)
Init ==
    /\ pc = "call"
    /\ possibleRolls \in RollSeqs(RollValues)
    /\ targetArg \in TargetArgs(TargetValues)
    /\ stat \in StatArgs
    /\ stack = <<>>
    /\ found = <<>>
    /\ artifact = NoArtifact
    /\ substats = <<>>

FindCombosCall ==
    /\ pc = "call"
    /\ found' = subsetSum(possibleRolls, Target, OneDecimal(stat), <<>>)
    /\ pc' = "returned"
    /\ UNCHANGED <<possibleRolls, targetArg, stat, stack, artifact, substats>>

Next == FindCombosCall

Spec == Init /\ [][Next]_vars

(***************************************************************************)
(* Vocabulary of the properties.                                           *)
(***************************************************************************)
Returned == pc = "returned"

\* Rounding under the mode selected by stat.
RoundMode(n) == IF OneDecimal(stat) THEN round1(n) ELSE MathRound(n)

\* The rounded sum of a sequence equals the rounded target.
ReachesRoundedTarget(combo) ==
    ~Target.nan /\ RoundMode(Reduce(combo)) = RoundMode(Target.val)

IsAscending(combo) ==
    \A i, j \in DOMAIN combo : i < j => combo[i] <= combo[j]

NonNegative(rolls) == \A i \in DOMAIN rolls : rolls[i] >= 0

\* The multisets of at most k values of rolls, each as the function giving
\* the number of copies of every candidate.
RECURSIVE Total(_, _)
Total(counts, n) == IF n = 0 THEN 0 ELSE Total(counts, n - 1) + counts[n]

Multisets(rolls, k) ==
    { counts \in [DOMAIN rolls -> 0..k] : Total(counts, Len(rolls)) <= k }

RECURSIVE Copies(_, _)
Copies(v, n) == IF n = 0 THEN <<>> ELSE <<v>> \o Copies(v, n - 1)

RECURSIVE Spread(_, _, _)
Spread(rolls, counts, n) ==
    IF n = 0 THEN <<>>
    ELSE Spread(rolls, counts, n - 1) \o Copies(rolls[n], counts[n])

\* The ascending-sorted forms of the multisets of at most k values of rolls.
SortedForms(rolls, k) ==
    { SortAscending(Spread(rolls, counts, Len(rolls))) :
        counts \in Multisets(rolls, k) }

\* The target argument rounded by the caller under the selected mode.
RoundedTargetArg ==
    [numeric |-> targetArg.numeric, val |-> RoundMode(targetArg.val)]

(***************************************************************************)
(* Properties of findCombos, checked under Spec.                           *)
(***************************************************************************)
\* C1: completeness. For non-negative candidates, every multiset of at most
\* 6 candidates whose rounded sum equals the rounded target is in the result
\* in sorted form.
C1_Complete ==
    (Returned /\ NonNegative(possibleRolls)) =>
        LET combos == Range(result)
        IN  \A m \in SortedForms(possibleRolls, 6) :
                ReachesRoundedTarget(m) => m \in combos

\* C2: soundness. Every returned combination is made of candidates only and
\* its rounded sum equals the rounded target; when no multiset of candidates
\* reaches the rounded target the result is empty.
C2_Sound ==
    Returned =>
        LET combos == Range(result)
        IN  /\ \A combo \in combos :
                  /\ Range(combo) \subseteq Range(possibleRolls)
                  /\ ReachesRoundedTarget(combo)
            /\ (\A m \in SortedForms(possibleRolls, 7) :
                   ~ReachesRoundedTarget(m))
                  => combos = {}

C2_Witness ==
    /\ Returned
    /\ targetArg.numeric
    /\ RoundMode(targetArg.val) = targetArg.val
    /\ LET combos == Range(result)
       IN  /\ Cardinality(combos) >= 2
           /\ \E combo \in combos :
                 Len(combo) >= 3 /\ Reduce(combo) # targetArg.val

\* C3: no returned combination has more than 6 elements.
C3_AtMostSix ==
    Returned => \A combo \in Range(result) : Len(combo) <= 6

\* C4: the result for a target equals the result for that target rounded
\* under the selected mode.
C4_TargetRounded ==
    Returned =>
        Range(result) = Range(FindCombos(possibleRolls, RoundedTargetArg, stat))

\* C5: every returned combination is ascending, no two entries of the
\* result are equal, and the sorted form of every raw path is one entry.
C5_Deduplicated ==
    Returned =>
        LET r == result
        IN  /\ \A i \in DOMAIN r : IsAscending(r[i])
            /\ \A i, j \in DOMAIN r : i # j => r[i] # r[j]
            /\ \A k \in DOMAIN found :
                   \E i \in DOMAIN r : r[i] = SortAscending(found[k])

C5_Witness ==
    /\ Returned
    /\ \E i, j \in DOMAIN found :
          /\ Len(found[i]) = 2
          /\ found[j] = <<found[i][2], found[i][1]>>
          /\ found[i] # found[j]
          /\ Cardinality({ n \in DOMAIN result :
                             result[n] = SortAscending(found[i]) }) = 1

\* C9: in every returned combination every proper prefix has a rounded sum
\* strictly below the rounded target.
C9_PrefixBelowTarget ==
    Returned =>
        \A combo \in Range(result) :
            /\ ~Target.nan
            /\ \A n \in 0..(Len(combo) - 1) :
                   RoundMode(Reduce(SubSeq(combo, 1, n))) < RoundMode(Target.val)

C9_Witness ==
    /\ Returned
    /\ NonNegative(possibleRolls)
    /\ \E i \in DOMAIN found :
          /\ Len(found[i]) >= 2
          /\ found[i] # SortAscending(found[i])

(***************************************************************************)
(* SearchSpec: the same call, one step per subsetSum invocation and per    *)
(* iteration of its loop.  A frame holds the partials of one invocation    *)
(* and i, the next candidate of its loop (0: the body has not run yet).    *)
(***************************************************************************)
SearchStats == {"critRate", "Def"}

Frame(partials, i) == [partials |-> partials, i |-> i]

Top == stack[Len(stack)]

Pop == SubSeq(stack, 1, Len(stack) - 1)

SearchInit ==
    /\ pc = "call"
    /\ possibleRolls \in RollSeqs(SearchRollValues)
    /\ targetArg \in TargetArgs(SearchTargetValues)
    /\ stat \in SearchStats
    /\ stack = <<>>
    /\ found = <<>>
    /\ artifact = NoArtifact
    /\ substats = <<>>

\* findCombos up to its call of subsetSum with partials = [].
FindCombosEnter ==
    /\ pc = "call"
    /\ pc' = "search"
    /\ stack' = <<Frame(<<>>, 0)>>
    /\ found' = <<>>
    /\ UNCHANGED <<possibleRolls, targetArg, stat, artifact, substats>>

\* The body of subsetSum before its loop: record, prune, length cap.
SubsetSumBody ==
    /\ pc = "search"
    /\ stack # <<>>
    /\ Top.i = 0
    /\ LET sum == RoundedSum(Top.partials, OneDecimal(stat))
       IN  /\ found' = IF Match(sum, Target)
                       THEN Append(found, Top.partials) ELSE found
           /\ stack' = IF Prune(sum, Target) \/ LengthCap(Top.partials)
                       THEN Pop
                       ELSE Append(Pop, Frame(Top.partials, 1))
    /\ UNCHANGED <<pc, possibleRolls, targetArg, stat, artifact, substats>>

\* One iteration of the loop of subsetSum: the recursive call on the next
\* candidate, or the return once the candidates are exhausted.  A call that
\* would exceed the engine's stack throws a RangeError.
SubsetSumLoop ==
    /\ pc = "search"
    /\ stack # <<>>
    /\ Top.i >= 1
    /\ IF Top.i > Len(possibleRolls)
       THEN stack' = Pop /\ pc' = pc
       ELSE IF Len(stack) >= StackLimit
       THEN stack' = stack /\ pc' = "RangeError"
       ELSE /\ stack' = Append(Append(Pop, Frame(Top.partials, Top.i + 1)),
                         Frame(Append(Top.partials, possibleRolls[Top.i]), 0))
            /\ pc' = pc
    /\ UNCHANGED <<possibleRolls, targetArg, stat, found, artifact, substats>>

\* findCombos after subsetSum has returned: it returns result, the sorted
\* and deduplicated paths.
FindCombosReturn ==
    /\ pc = "search"
    /\ stack = <<>>
    /\ pc' = "returned"
    /\ UNCHANGED <<possibleRolls, targetArg, stat, stack, found, artifact, substats>>

SearchNext ==
    \/ FindCombosEnter
    \/ SubsetSumBody
    \/ SubsetSumLoop
    \/ FindCombosReturn

\* The call runs to completion once started: nothing suspends it.
SearchSpec == SearchInit /\ [][SearchNext]_vars /\ WF_vars(SearchNext)

\* The stepwise search computes what subsetSum and FindCombos define.
SearchAgrees ==
    Returned =>
        /\ found = subsetSum(possibleRolls, Target, OneDecimal(stat), <<>>)
        /\ result = FindCombos(possibleRolls, targetArg, stat)

\* C10: the search terminates. No invocation is nested deeper than the
\* length cap allows (partials of 0 to 7 elements), and findCombos
\* eventually returns, also when the target is NaN.
C10_Terminates ==
    /\ [](Len(stack) <= 8)
    /\ <>Returned

C10_Witness ==
    /\ Returned
    /\ Target.nan
    /\ Len(possibleRolls) >= 2

(***************************************************************************)
(* ratePower: the estimator.                                               *)
(***************************************************************************)
Undefined == [type |-> "undefined"]

\* A property an object does not have.
Absent == [type |-> "absent"]

\* Lookup tables of app/data/artifact-data, by attribute kind.
POSSIBLE_SUBSTAT_ROLLS ==
    [critRate |-> <<60, 100>>, Def |-> <<100, 200>>]

SUBSTAT_WEIGHTING ==
    [critRate |-> 2, Def |-> 1]

Kinds == {"critRate", "Def", "luck"}

\* table[kind]: undefined for a kind the table does not hold.
Lookup(table, kind) ==
    IF kind \in DOMAIN table
    THEN [type |-> "value", val |-> table[kind]]
    ELSE Undefined

\* module.exports = findCombos: the export is the function itself and
\* carries no properties of its own.
FindCombinationsExports == [type |-> "function", properties |-> {}]

\* const { findCombos } = require("../find-combinations.js")
findCombosImport ==
    IF "findCombos" \in FindCombinationsExports.properties
    THEN [type |-> "function"]
    ELSE Undefined

\* A substat record as the caller passes it.
Substat(kind, amount) ==
    [stat |-> kind,
     amount |-> [numeric |-> TRUE, val |-> amount],
     weight |-> Absent,
     numRolls |-> Absent]

Artifacts ==
    { [substats |-> subs] :
        subs \in UNION { [1..n -> { Substat(k, a) : k \in Kinds, a \in Amounts }] :
                           n \in 0..MaxSubstats } }

\* findCombos(rolls, amount) as ratePower calls it, with stat undefined:
\* subsetSum iterates over rolls unless the empty partial sum already
\* reaches the target, and iterating over undefined throws a TypeError.
CallThrows(rolls, amount) ==
    /\ rolls = Undefined
    /\ ~Prune(RoundedSum(<<>>, OneDecimal("undefined")), Number(amount))

CallResult(rolls, amount) ==
    [type |-> "value",
     val |-> FindCombos(IF rolls = Undefined THEN <<>> ELSE rolls.val,
                        amount, "undefined")]

RateInit ==
    /\ pc = "map"
    /\ artifact \in Artifacts
    /\ substats = <<>>
    /\ possibleRolls = <<>>
    /\ targetArg = [numeric |-> FALSE, val |-> 0]
    /\ stat = "undefined"
    /\ stack = <<>>
    /\ found = <<>>

\* One invocation of the callback of artifact.substats.map: the weight is
\* stored on the record, then findCombos is called; the callback returns
\* nothing, so the mapped array receives undefined.
MapCallback ==
    /\ pc = "map"
    /\ Len(substats) < Len(artifact.substats)
    /\ LET i == Len(substats) + 1
           sub == artifact.substats[i]
           weighted == [sub EXCEPT !.weight = Lookup(SUBSTAT_WEIGHTING, sub.stat)]
           rolls == Lookup(POSSIBLE_SUBSTAT_ROLLS, sub.stat)
       IN  IF findCombosImport = Undefined \/ CallThrows(rolls, sub.amount)
           THEN /\ artifact' = [artifact EXCEPT !.substats[i] = weighted]
                /\ pc' = "TypeError"
                /\ substats' = substats
           ELSE /\ artifact' = [artifact EXCEPT !.substats[i] =
                       [weighted EXCEPT !.numRolls = CallResult(rolls, sub.amount)]]
                /\ pc' = pc
                /\ substats' = Append(substats, Undefined)
    /\ UNCHANGED <<possibleRolls, targetArg, stat, stack, found>>

\* console.log(substats), then ratePower returns.
RatePowerLog ==
    /\ pc = "map"
    /\ Len(substats) = Len(artifact.substats)
    /\ pc' = "returned"
    /\ UNCHANGED <<possibleRolls, targetArg, stat, stack, found, artifact, substats>>

RateNext == MapCallback \/ RatePowerLog

RateSpec == RateInit /\ [][RateNext]_vars

\* ratePower has ended, by returning or by an exception.
RateEnded == pc \in {"returned", "TypeError"}

KnownKind(kind) ==
    kind \in DOMAIN POSSIBLE_SUBSTAT_ROLLS /\ kind \in DOMAIN SUBSTAT_WEIGHTING

\* C6: once the estimator has ended, every attribute of a known kind holds
\* the weight of its kind and the combinations findCombos gives for its
\* candidates, amount and kind.
C6_Evidence ==
    RateEnded =>
        \A i \in DOMAIN artifact.substats :
            LET sub == artifact.substats[i]
            IN  KnownKind(sub.stat) =>
                  /\ sub.weight = Lookup(SUBSTAT_WEIGHTING, sub.stat)
                  /\ sub.numRolls =
                       [type |-> "value",
                        val |-> FindCombos(POSSIBLE_SUBSTAT_ROLLS[sub.stat],
                                           sub.amount, sub.stat)]

\* C7: when an attribute has a kind absent from the lookup tables, every
\* sibling attribute of a known kind still gets its weight and combinations.
C7_SiblingsKept ==
    (RateEnded /\ \E i \in DOMAIN artifact.substats :
                      ~KnownKind(artifact.substats[i].stat)) =>
        \A j \in DOMAIN artifact.substats :
            KnownKind(artifact.substats[j].stat) =>
                /\ artifact.substats[j].weight # Absent
                /\ artifact.substats[j].numRolls # Absent

\* C8: the estimator leaves the entity passed in, and each of its attribute
\* records, unchanged.
C8_EntityUnchanged == [][artifact' = artifact]_vars

====
